---- MODULE Spec2Model ----
(***************************************************************************)
(* Model of the mount-URI resolver of kubectl-marimo                       *)
(* (plugin/kubectl_marimo/resources.py): parse_mount_uri, is_local_mount   *)
(* and filter_mounts.                                                      *)
(*                                                                         *)
(* A Python str is a sequence of one-character strings, so that the        *)
(* regular expression, find, rsplit and startswith are computed character  *)
(* by character.  Python's None is the value None below, which is not a    *)
(* str (no str holds a four-letter element).                               *)
(***************************************************************************)
EXTENDS Integers, Sequences, FiniteSets, TLC

\* ------------------------------------------------------------------ bounds
\* Longest free part of a descriptor handed to parse_mount_uri.
MaxTail == 4
\* Longest batch handed to filter_mounts.
MaxBatch == 4
\* Longest batch of each of two filter_mounts calls that run interleaved.
MaxConcBatch == 2
\* Longest list under the frontmatter key mounts of a deployed notebook.
MaxFm == 2

\* ------------------------------------------------------------- characters
NL == "\n"
\* The characters the free part of a descriptor is drawn from: one word
\* character, the three delimiters of the format, and a line break.
Alphabet == {"a", "/", ":", "@", NL}
\* The characters of the model that the regular expression's \w matches.
WordChar == {"a", "c", "n", "r", "s", "w", "y"}

None == <<"None">>

rsync == <<"r", "s", "y", "n", "c">>
cw == <<"c", "w">>
SchemeSep == <<":", "/", "/">>

\* "/home/marimo/notebooks/"
NotebooksDir ==
  <<"/", "h", "o", "m", "e", "/", "m", "a", "r", "i", "m", "o", "/",
    "n", "o", "t", "e", "b", "o", "o", "k", "s", "/">>
\* "/home/marimo/notebooks/mounts/local-"
LocalMountPrefix ==
  NotebooksDir \o <<"m", "o", "u", "n", "t", "s", "/", "l", "o", "c", "a", "l", "-">>

\* ------------------------------------------------------ string primitives
\* s[from:] with a 1-based first position.
Suffix(s, from) == SubSeq(s, from, Len(s))

\* sub occurs in s at 1-based position k.
OccursAt(s, sub, k) ==
  /\ k >= 1
  /\ k + Len(sub) - 1 <= Len(s)
  /\ SubSeq(s, k, k + Len(sub) - 1) = sub

\* str.find(sub): the 1-based position of the first occurrence, 0 when there
\* is none (Python's -1).
find(s, sub) ==
  IF \E k \in 1..Len(s) : OccursAt(s, sub, k)
  THEN CHOOSE k \in 1..Len(s) :
         /\ OccursAt(s, sub, k)
         /\ \A j \in 1..(k - 1) : ~OccursAt(s, sub, j)
  ELSE 0

\* str.rsplit(ch, 1): split at the last occurrence of the character ch.
rsplit(s, ch) ==
  IF \E k \in 1..Len(s) : s[k] = ch
  THEN LET k == CHOOSE k \in 1..Len(s) :
                  /\ s[k] = ch
                  /\ \A j \in (k + 1)..Len(s) : s[j] # ch
       IN <<SubSeq(s, 1, k - 1), Suffix(s, k + 1)>>
  ELSE <<s>>

\* str.startswith(ch) for a one-character prefix.
startswith(s, ch) == Len(s) >= 1 /\ s[1] = ch

\* ch in s
contains(s, ch) == \E k \in 1..Len(s) : s[k] = ch

\* str(n) for n >= 0, as the f-string formats the loop index.
RECURSIVE str(_)
str(n) ==
  LET digit == <<"0", "1", "2", "3", "4", "5", "6", "7", "8", "9">>[(n % 10) + 1]
  IN IF n < 10 THEN <<digit>> ELSE str(n \div 10) \o <<digit>>

\* ------------------------------------------- re.match(r"^(\w+)://(.*)$")
\* Length of the longest run of word characters at the start of uri: what
\* the greedy (\w+) takes.
RECURSIVE WordRun(_)
WordRun(s) ==
  IF Len(s) >= 1 /\ s[1] \in WordChar THEN 1 + WordRun(Tail(s)) ELSE 0

\* The text after the separator, once (\w+):// has matched.
AfterSep(uri) == Suffix(uri, WordRun(uri) + Len(SchemeSep) + 1)

\* The pattern with (\w*) for (\w+): an empty scheme is accepted.
matchAnyScheme(uri) ==
  /\ OccursAt(uri, SchemeSep, WordRun(uri) + 1)
  /\ LET rest == AfterSep(uri)
     IN \A k \in 1..Len(rest) : rest[k] = NL => k = Len(rest)

\* The pattern matches: a non-empty run of word characters, "://" right
\* after it, and a rest that (.*)$ accepts: "." takes no line break and "$"
\* stands at the end of the string or before a line break that ends it.
match(uri) ==
  /\ WordRun(uri) >= 1
  /\ OccursAt(uri, SchemeSep, WordRun(uri) + 1)
  /\ LET rest == AfterSep(uri)
     IN \A k \in 1..Len(rest) : rest[k] = NL => k = Len(rest)

\* match.group(1)
group1(uri) == SubSeq(uri, 1, WordRun(uri))

\* match.group(2): the rest without the line break that may end it.
group2(uri) ==
  LET rest == AfterSep(uri)
  IN IF Len(rest) >= 1 /\ rest[Len(rest)] = NL
     THEN SubSeq(rest, 1, Len(rest) - 1)
     ELSE rest

\* -------------------------------------------------------- parse_mount_uri
\* The outcome of a call: an exception raised (exc names its class), or the
\* 4-tuple returned (exc is NoExc).
NoExc == "-"

Raise(class) ==
  [exc |-> class, scheme |-> None, source_path |-> None,
   user_host |-> None, mount_point |-> None]

Return(scheme, source_path, user_host, mount_point) ==
  [exc |-> NoExc, scheme |-> scheme, source_path |-> source_path,
   user_host |-> user_host, mount_point |-> mount_point]

\* The mount point taken as written, relative or not.
ResolveMountVerbatim(mount) == mount

\* A relative mount point gets /home/marimo/notebooks/ prepended
\* (resources.py 52-53).
ResolveMount(mount) ==
  IF ~startswith(mount, "/") THEN NotebooksDir \o mount ELSE mount

\* The local branch (resources.py 48-55).
ParseLocal(scheme, remainder) ==
  LET parts == rsplit(remainder, ":")
  IN IF Len(parts) = 2 /\ parts[2] # <<>>
     THEN Return(scheme, parts[1], None, ResolveMount(parts[2]))
     ELSE Return(scheme, remainder, None, None)

\* The remote branch with rfind for find: the boundary is the last ":/".
ParseRemoteRfind(scheme, remainder) ==
  LET occ == {k \in 1..Len(remainder) : OccursAt(remainder, <<":", "/">>, k)}
      colon_idx == IF occ = {} THEN 0 ELSE CHOOSE k \in occ : \A j \in occ : k >= j
  IN IF colon_idx = 0
     THEN Raise("ValueError")
     ELSE LET user_host == SubSeq(remainder, 1, colon_idx - 1)
              path_part == Suffix(remainder, colon_idx + 1)
              path_parts == rsplit(path_part, ":")
          IN IF Len(path_parts) = 2 /\ startswith(path_parts[2], "/")
             THEN Return(scheme, path_parts[1], user_host, path_parts[2])
             ELSE Return(scheme, path_part, user_host, None)

\* The remote branch (resources.py 57-72).
ParseRemote(scheme, remainder) ==
  LET colon_idx == find(remainder, <<":", "/">>)
  IN IF colon_idx = 0
     THEN Raise("ValueError")
     ELSE LET user_host == SubSeq(remainder, 1, colon_idx - 1)
              path_part == Suffix(remainder, colon_idx + 1)
              path_parts == rsplit(path_part, ":")
          IN IF Len(path_parts) = 2 /\ startswith(path_parts[2], "/")
             THEN Return(scheme, path_parts[1], user_host, path_parts[2])
             ELSE Return(scheme, path_part, user_host, None)

\* The test without the scheme: any scheme may be local.
IsLocalFormAnyScheme(scheme, remainder) == ~contains(remainder, "@")

\* The test that selects the local branch (resources.py 43).
IsLocalForm(scheme, remainder) == scheme = rsync /\ ~contains(remainder, "@")

parse_mount_uri(uri) ==
  IF ~match(uri)
  THEN Raise("ValueError")
  ELSE IF IsLocalForm(group1(uri), group2(uri))
       THEN ParseLocal(group1(uri), group2(uri))
       ELSE ParseRemote(group1(uri), group2(uri))

\* --------------------------------------------------------- is_local_mount
\* Returns a bool, or raises what parse_mount_uri raises.
is_local_mount(uri) ==
  LET parsed == parse_mount_uri(uri)
  IN IF parsed.exc # NoExc
     THEN [exc |-> parsed.exc, value |-> FALSE]
     ELSE [exc |-> NoExc, value |-> (parsed.user_host = None)]

\* ------------------------------------------------------------------ state
VARIABLES
  uri,            \* the argument of a call of parse_mount_uri / is_local_mount
  out,            \* the call made (op), what it produced (res) and the value
                  \* of its local variable remainder, None where unbound
  mounts,         \* filter_mounts: the argument, per call
  i,              \* filter_mounts: the loop index of enumerate, per call
  remote_mounts,  \* filter_mounts: the list remote_mounts, per call
  local_mounts,   \* filter_mounts: the list local_mounts, per call
  pc,             \* filter_mounts: "loop" in the for loop, "done" once returned,
                  \* "raised" once an exception left the call
  raised,         \* filter_mounts: the class of that exception, NoExc if none
  call,           \* deploy / apply: the command and its arguments
  wpc,            \* deploy / apply: where the invocation stands; "idle" when
                  \* no invocation runs
  resource,       \* the resource build_marimo_notebook returned: whether its
                  \* spec has the key "mounts", and the value under it
  local_list,     \* the local list build_marimo_notebook returned
  sent,           \* deploy: how many entries of the local list the for loop
                  \* has handed to sync_local_source
  log,            \* the calls of sync_local_source, the requests made to the
                  \* cluster and the writes of the tracking file, in the
                  \* order they were made
  swap,           \* the tracking (swap) file of the notebook
  file            \* the text of the notebook file

\* The state of a deploy / apply invocation.
wf == <<call, wpc, resource, local_list, sent, log, swap, file>>

vars == <<uri, out, mounts, i, remote_mounts, local_mounts, pc, raised,
          call, wpc, resource, local_list, sent, log, swap, file>>

\* ----------------------------------------------------------------- inputs
\* Every str over Alphabet of at most MaxTail characters.
Tails == UNION {[1..n -> Alphabet] : n \in 0..MaxTail}

\* The descriptors handed to a single call: an optional scheme name, an
\* optional "://" (with or without a user@host after it) and a free part.
UserHostSep == SchemeSep \o <<"a", "@", "a">>

URIs ==
  {pre \o mid \o t : pre \in {<<>>, rsync, cw},
                     mid \in {<<>>, SchemeSep, UserHostSep},
                     t \in Tails}

\* The descriptors batches are made of.
LocalRel == rsync \o SchemeSep \o <<"a">>                        \* rsync://a
LocalAbs == rsync \o SchemeSep \o <<"/", "a">>                   \* rsync:///a
LocalAbsMount == rsync \o SchemeSep \o <<"a", ":", "/", "a">>    \* rsync://a:/a
LocalRelMount == rsync \o SchemeSep \o <<"a", ":", "a">>         \* rsync://a:a
RemoteHost == rsync \o SchemeSep \o <<"a", "@", "a", ":", "/", "a">>  \* rsync://a@a:/a
Bucket == cw \o SchemeSep \o <<"a", "/", "a">>                   \* cw://a/a

Pool == {LocalRel, LocalAbs, LocalAbsMount, LocalRelMount, RemoteHost, Bucket}

\* The batches: every list over Pool of at most MaxBatch descriptors, and
\* every single descriptor of URIs.
Batches ==
  UNION {[1..n -> Pool] : n \in 0..MaxBatch} \cup {<<u>> : u \in URIs}

\* ------------------------------------------- no deploy / apply invocation
\* A resource whose spec has no key "mounts".
NoMounts == [has_mounts |-> FALSE, mounts |-> <<>>]

\* No tracking file: read_swap_file gives None.
NoSwap == [exists |-> FALSE, file_hash |-> "", local_mounts |-> <<>>]

\* The arguments of no command.
NoArgs ==
  [cmd |-> "-", is_dir |-> FALSE, source |-> None, has_mounts_key |-> FALSE,
   fm_mounts |-> <<>>, dry_run |-> FALSE, force |-> FALSE, headless |-> FALSE,
   no_sync |-> FALSE]

\* The state in which neither deploy nor apply runs.
NoInvocation ==
  /\ call = NoArgs
  /\ wpc = "idle"
  /\ resource = NoMounts
  /\ local_list = <<>>
  /\ sent = 0
  /\ log = <<>>
  /\ swap = NoSwap
  /\ file = ""

\* ----------------------------------------------------------- filter_mounts
\* f-string "/home/marimo/notebooks/mounts/local-{i}"
default_mount(idx) == LocalMountPrefix \o str(idx)

\* The default mount point, whatever the descriptor gives.
OrDefault(mount_point, default) == default

\* The mount point of the descriptor, with no default for a missing one.
OrLeft(mount_point, default) == mount_point

\* mount_point or default_mount
Or(mount_point, default) ==
  IF mount_point = None \/ mount_point = <<>> THEN default ELSE mount_point

\* len(mounts) for i: the same index for every descriptor of a batch.
MountIndexLen(batch, idx) == Len(batch)

\* A counter shared by all the calls in progress, for the i of one call.
MountIndexShared(batch, idx) ==
  Cardinality({cn \in (DOMAIN i) \X (1..(MaxBatch + MaxConcBatch)) : cn[2] <= i[cn[1]]})

\* The index the loop formats into the default mount point of mounts[idx+1]:
\* the i of enumerate(mounts).
MountIndex(batch, idx) == idx

\* remote_mounts.insert(0, uri)
RemotePrepend(lst, d) == <<d>> \o lst

\* remote_mounts.append(uri) (resources.py 108, 111).
RemoteAppend(lst, d) == Append(lst, d)

\* An except clause for another class.
CaughtKeyError == {"KeyError"}

\* The classes the except clause of the loop body catches.
Caught == {"ValueError"}

\* One iteration of the for loop of call c (resources.py 98-111).
FilterStep(c) ==
  /\ pc[c] = "loop"
  /\ i[c] < Len(mounts[c])
  /\ LET d == mounts[c][i[c] + 1]
         p == parse_mount_uri(mounts[c][i[c] + 1])
     IN IF p.exc # NoExc /\ p.exc \notin Caught
        THEN \* the exception leaves filter_mounts
             /\ pc' = [pc EXCEPT ![c] = "raised"]
             /\ raised' = [raised EXCEPT ![c] = p.exc]
             /\ UNCHANGED <<i, remote_mounts, local_mounts>>
        ELSE /\ IF p.exc # NoExc
                THEN \* except ValueError: pass the descriptor through
                     /\ remote_mounts' = [remote_mounts EXCEPT ![c] = RemoteAppend(@, d)]
                     /\ UNCHANGED local_mounts
                ELSE IF p.user_host = None
                THEN /\ local_mounts' =
                          [local_mounts EXCEPT ![c] =
                             Append(@, <<p.source_path,
                                         Or(p.mount_point,
                                            default_mount(MountIndex(mounts[c], i[c]))),
                                         p.scheme>>)]
                     /\ UNCHANGED remote_mounts
                ELSE /\ remote_mounts' = [remote_mounts EXCEPT ![c] = RemoteAppend(@, d)]
                     /\ UNCHANGED local_mounts
             /\ i' = [i EXCEPT ![c] = @ + 1]
             /\ UNCHANGED <<pc, raised>>
  /\ UNCHANGED <<uri, out, mounts>>
  /\ UNCHANGED wf

\* The loop is exhausted: return remote_mounts, local_mounts (resources.py 113).
FilterReturn(c) ==
  /\ pc[c] = "loop"
  /\ i[c] = Len(mounts[c])
  /\ pc' = [pc EXCEPT ![c] = "done"]
  /\ UNCHANGED <<uri, out, mounts, i, remote_mounts, local_mounts, raised>>
  /\ UNCHANGED wf

\* No call of parse_mount_uri or is_local_mount has been made.
NoCall == [op |-> "-", res |-> None, remainder |-> None]

\* A call of filter_mounts on any batch, at its entry.
Init ==
  /\ uri = None
  /\ out = NoCall
  /\ mounts \in [{1} -> Batches]
  /\ i = [c \in {1} |-> 0]
  /\ remote_mounts = [c \in {1} |-> <<>>]
  /\ local_mounts = [c \in {1} |-> <<>>]
  /\ pc = [c \in {1} |-> "loop"]
  /\ raised = [c \in {1} |-> NoExc]
  /\ NoInvocation

Next ==
  \/ \E c \in DOMAIN pc : FilterStep(c)
  \/ \E c \in DOMAIN pc : FilterReturn(c)

Spec == Init /\ [][Next]_vars

\* ----------------------------------- two filter_mounts calls interleaved
\* The descriptors and batches of two calls that run at the same time.
ConcPool == {LocalRel, LocalAbsMount, RemoteHost, Bucket}

ConcBatches == UNION {[1..n -> ConcPool] : n \in 0..MaxConcBatch}

\* Two calls of filter_mounts at their entry, each on any batch; Next
\* interleaves their loop iterations in every order.
InitConc ==
  /\ uri = None
  /\ out = NoCall
  /\ mounts \in [{1, 2} -> ConcBatches]
  /\ i = [c \in {1, 2} |-> 0]
  /\ remote_mounts = [c \in {1, 2} |-> <<>>]
  /\ local_mounts = [c \in {1, 2} |-> <<>>]
  /\ pc = [c \in {1, 2} |-> "loop"]
  /\ raised = [c \in {1, 2} |-> NoExc]
  /\ NoInvocation

SpecConc == InitConc /\ [][Next]_vars

\* ------------------------------------- calls of the two parsing functions
ParseMountUri ==
  /\ out.op = "-"
  /\ out' = [op |-> "parse_mount_uri", res |-> parse_mount_uri(uri),
             remainder |-> IF match(uri) THEN group2(uri) ELSE None]
  /\ UNCHANGED <<uri, mounts, i, remote_mounts, local_mounts, pc, raised>>
  /\ UNCHANGED wf

IsLocalMount ==
  /\ out.op = "-"
  /\ out' = [op |-> "is_local_mount", res |-> is_local_mount(uri),
             remainder |-> None]
  /\ UNCHANGED <<uri, mounts, i, remote_mounts, local_mounts, pc, raised>>
  /\ UNCHANGED wf

\* A call of parse_mount_uri or of is_local_mount on any descriptor; no
\* filter_mounts call is running.
InitParse ==
  /\ uri \in URIs
  /\ out = NoCall
  /\ mounts = <<>>
  /\ i = <<>>
  /\ remote_mounts = <<>>
  /\ local_mounts = <<>>
  /\ pc = <<>>
  /\ raised = <<>>
  /\ NoInvocation

NextParse == ParseMountUri \/ IsLocalMount

SpecParse == InitParse /\ [][NextParse]_vars

\* ------------------------------------------------ deploy / apply: inputs
\* The texts a notebook file has.
Contents == {"v1", "v2"}

\* hashlib.sha256(content.encode()).hexdigest()[:16]: one digest per text.
Digest(content) == IF content = "v1" THEN "1f0c" ELSE "2e9a"

\* f"sha256:{h}"
compute_hash(content) == "sha256:" \o Digest(content)

\* The values of --source: none given, the empty str, a local descriptor
\* and a remote one.
Sources == {None, <<>>, LocalAbs, Bucket}

\* The values of frontmatter["mounts"]: every list over FmPool of at most
\* MaxFm descriptors.
FmPool == {LocalRel, LocalAbsMount, RemoteHost}

FmLists == UNION {[1..n -> FmPool] : n \in 0..MaxFm}

\* deploy_notebook(file_path, source=, dry_run=, headless=, force=) on a
\* directory or on a notebook file whose frontmatter may have the key mounts.
DeployArgs ==
  {[cmd |-> "deploy", is_dir |-> d, source |-> s, has_mounts_key |-> h,
    fm_mounts |-> f, dry_run |-> dr, force |-> fo, headless |-> hl,
    no_sync |-> FALSE] :
      d \in BOOLEAN, s \in Sources, h \in BOOLEAN, f \in FmLists,
      dr \in BOOLEAN, fo \in BOOLEAN, hl \in BOOLEAN}

\* apply_notebook(file_path, dry_run=, force=): no source, no browser.
ApplyArgs ==
  {[cmd |-> "apply", is_dir |-> FALSE, source |-> None, has_mounts_key |-> h,
    fm_mounts |-> f, dry_run |-> dr, force |-> fo, headless |-> TRUE,
    no_sync |-> FALSE] :
      h \in BOOLEAN, f \in FmLists, dr \in BOOLEAN, fo \in BOOLEAN}

\* A directory has no frontmatter; a frontmatter without the key has no list.
Invocations ==
  {a \in DeployArgs \cup ApplyArgs :
     /\ a.is_dir => ~a.has_mounts_key
     /\ ~a.has_mounts_key => a.fm_mounts = <<>>}

\* --------------------------------------------------- the tracking record
\* create_swap_meta(name, namespace, original_file, file_hash, local_mounts):
\* the record holds what it is given; local_mounts=None is the empty list.
create_swap_meta(file_hash, mounts_data) ==
  [exists |-> TRUE, file_hash |-> file_hash, local_mounts |-> mounts_data]

\* write_swap_file(file_path, meta): the tracking file holds the record
\* written last. delete_swap_file(file_path): no tracking file is left.
write_swap_file(meta) == meta
delete_swap_file(meta) == NoSwap

\* A call of sync_local_source, a request to the cluster or a write of the
\* tracking file, with the paths it names (None where it names none) and
\* the result the code reads of it (TRUE where it reads none).
Entry(op, src, dest, ok) == [op |-> op, src |-> src, dest |-> dest, ok |-> ok]

\* -------------------------------------------------- build_marimo_notebook
\* if source: (a str is true unless empty, None is false)
Truthy(s) == s # None /\ s # <<>>

\* The frontmatter mounts first, the source after them.
AllMountsSourceLast(source, has_mounts_key, fm_mounts) ==
  (IF has_mounts_key THEN fm_mounts ELSE <<>>)
    \o (IF Truthy(source) THEN <<source>> ELSE <<>>)

\* all_mounts: the source if there is one, then frontmatter["mounts"]
\* (resources.py 226-230).
AllMounts(source, has_mounts_key, fm_mounts) ==
  (IF Truthy(source) THEN <<source>> ELSE <<>>)
    \o (IF has_mounts_key THEN fm_mounts ELSE <<>>)

\* spec["mounts"] set whatever the remote list holds.
SpecMountsAlways(remote) == [has_mounts |-> TRUE, mounts |-> remote]

\* if remote_mounts: spec["mounts"] = remote_mounts (resources.py 237-238).
SpecMounts(remote) == [has_mounts |-> remote # <<>>, mounts |-> remote]

\* The source build_marimo_notebook is called with: deploy passes its own,
\* apply passes none.
BuildSource == IF call.cmd = "deploy" THEN call.source ELSE None

\* ------------------------------------------- deploy_notebook, apply_notebook
\* The check of an existing deployment and the parse of the file
\* (deploy.py 40-66, apply.py 21-37). A directory is deployed unchecked and
\* unparsed; the answer to the prompt and the outcome of parse_file are the
\* user's and the file's.
CheckExisting ==
  /\ wpc = "start"
  /\ call.cmd \in {"deploy", "apply"}
  /\ \E confirm \in BOOLEAN, parsed \in BOOLEAN :
       wpc' = IF call.cmd = "deploy" /\ call.is_dir THEN "build"
              ELSE IF /\ swap.exists
                      /\ ~call.force
                      /\ compute_hash(file) # swap.file_hash
                      /\ ~confirm
                   THEN "cancelled"
              ELSE IF ~parsed THEN "exit"
              ELSE "build"
  /\ UNCHANGED <<uri, out, mounts, i, remote_mounts, local_mounts, pc, raised>>
  /\ UNCHANGED <<call, resource, local_list, sent, log, swap, file>>

\* build_marimo_notebook up to its call of filter_mounts (resources.py
\* 226-236): with no mount at all filter_mounts is not called and the
\* function returns at once.
Build ==
  /\ wpc = "build"
  /\ LET all_mounts == AllMounts(BuildSource, call.has_mounts_key, call.fm_mounts)
     IN IF all_mounts # <<>>
        THEN /\ mounts' = [c \in {1} |-> all_mounts]
             /\ i' = [c \in {1} |-> 0]
             /\ remote_mounts' = [c \in {1} |-> <<>>]
             /\ local_mounts' = [c \in {1} |-> <<>>]
             /\ pc' = [c \in {1} |-> "loop"]
             /\ raised' = [c \in {1} |-> NoExc]
             /\ wpc' = "filter"
             /\ UNCHANGED <<resource, local_list>>
        ELSE /\ resource' = NoMounts
             /\ local_list' = <<>>
             /\ wpc' = "built"
             /\ UNCHANGED <<mounts, i, remote_mounts, local_mounts, pc, raised>>
  /\ UNCHANGED <<uri, out, call, sent, log, swap, file>>

\* filter_mounts is over: build_marimo_notebook returns the resource and the
\* local list (resources.py 236-249); an exception of filter_mounts leaves
\* the command.
BuildReturn ==
  /\ wpc = "filter"
  /\ pc[1] \in {"done", "raised"}
  /\ IF pc[1] = "done"
     THEN /\ resource' = SpecMounts(remote_mounts[1])
          /\ local_list' = local_mounts[1]
          /\ wpc' = "built"
     ELSE /\ wpc' = "exit"
          /\ UNCHANGED <<resource, local_list>>
  /\ UNCHANGED <<uri, out, mounts, i, remote_mounts, local_mounts, pc, raised>>
  /\ UNCHANGED <<call, sent, log, swap, file>>

\* A dry run goes on as any other run.
IfDryRunNever(dry_run) == FALSE

\* if dry_run: (deploy.py 78, apply.py 43)
IfDryRun(dry_run) == dry_run

\* if dry_run: print and return (deploy.py 78-84, apply.py 43-45).
DryRun ==
  /\ wpc = "built"
  /\ IfDryRun(call.dry_run)
  /\ wpc' = "end"
  /\ UNCHANGED <<uri, out, mounts, i, remote_mounts, local_mounts, pc, raised>>
  /\ UNCHANGED <<call, resource, local_list, sent, log, swap, file>>

\* Where the command goes after apply_resource: sys.exit(1) on failure;
\* deploy waits for the pod if local_mounts is not empty (deploy.py 87-92);
\* apply goes on to the tracking file (apply.py 48-52).
AfterApply(cmd, ok, lst) ==
  IF ~ok THEN "exit"
  ELSE IF cmd = "deploy" /\ lst # <<>> THEN "wait"
  ELSE "track"

\* apply_resource(resource): the cluster accepts what it is sent or not.
\* deploy sends the resource; apply keeps the pair build_marimo_notebook
\* returns under the name resource and sends that (apply.py 41, 48).
ApplyResource ==
  /\ wpc = "built"
  /\ ~IfDryRun(call.dry_run)
  /\ \E ok \in BOOLEAN :
       /\ log' = Append(log, Entry("apply", None, None, ok))
       /\ wpc' = AfterApply(call.cmd, ok, local_list)
  /\ UNCHANGED <<uri, out, mounts, i, remote_mounts, local_mounts, pc, raised>>
  /\ UNCHANGED <<call, resource, local_list, sent, swap, file>>

\* The copies are made whether the pod is ready or not.
AfterWaitAlwaysCopy(ready) == "copy"

\* if wait_for_ready(...): the for loop, else the warning (deploy.py 93-97).
AfterWait(ready) == IF ready THEN "copy" ELSE "track"

\* wait_for_ready(name, namespace) of deploy_notebook: kubectl wait returns
\* 0 or not (deploy.py 238-259).
WaitForReady ==
  /\ wpc = "wait"
  /\ \E ready \in BOOLEAN :
       /\ log' = Append(log, Entry("wait", None, None, ready))
       /\ wpc' = AfterWait(ready)
  /\ UNCHANGED <<uri, out, mounts, i, remote_mounts, local_mounts, pc, raised>>
  /\ UNCHANGED <<call, resource, local_list, sent, swap, file>>

\* --------------------------------------------------------- sync_local_source
\* kubectl cp first, mkdir -p after it.
PodCommandsCopyFirst(local_path, mount_point, is_dir, cp_ok) ==
  << Entry("cp", IF is_dir THEN local_path \o <<"/", ".">> ELSE local_path,
           mount_point, cp_ok),
     Entry("mkdir", None, mount_point, TRUE) >>
    \o (IF cp_ok THEN <<Entry("cleanup", None, mount_point, TRUE)>> ELSE <<>>)

\* The requests of sync_local_source for a path that exists: mkdir -p
\* mount_point, its result unread; kubectl cp of the file, or of the
\* contents "/." of the directory; find -delete if the copy succeeded
\* (deploy.py 284-337).
PodCommands(local_path, mount_point, is_dir, cp_ok) ==
  << Entry("mkdir", None, mount_point, TRUE),
     Entry("cp", IF is_dir THEN local_path \o <<"/", ".">> ELSE local_path,
           mount_point, cp_ok) >>
    \o (IF cp_ok THEN <<Entry("cleanup", None, mount_point, TRUE)>> ELSE <<>>)

\* sync_local_source(name, namespace, local_path, mount_point): the call,
\* with the value it returns, then its requests; none for a path that does
\* not exist (deploy.py 262-340).
sync_local_source(local_path, mount_point, exists, is_dir, cp_ok) ==
  <<Entry("sync", local_path, mount_point, exists /\ cp_ok)>>
    \o (IF exists
        THEN PodCommands(local_path, mount_point, is_dir, cp_ok)
        ELSE <<>>)

\* One iteration of for src, dest, _scheme in local_mounts (deploy.py
\* 94-95); the loop over, deploy goes on to the tracking file.
SyncLocalSource ==
  /\ wpc = "copy"
  /\ sent < Len(local_list)
  /\ \E exists \in BOOLEAN, is_dir \in BOOLEAN, cp_ok \in BOOLEAN :
       log' = log \o sync_local_source(local_list[sent + 1][1], local_list[sent + 1][2],
                                       exists, is_dir, cp_ok)
  /\ sent' = sent + 1
  /\ wpc' = IF sent + 1 = Len(local_list) THEN "track" ELSE "copy"
  /\ UNCHANGED <<uri, out, mounts, i, remote_mounts, local_mounts, pc, raised>>
  /\ UNCHANGED <<call, resource, local_list, swap, file>>

\* ----------------------------------------------------- the tracking file
\* mounts_data = None whatever local_mounts holds.
mounts_data_none(lst) == <<>>

\* mounts_data: {"local": src, "remote": dest} for each entry of
\* local_mounts, None (the empty list here) if there is none
\* (deploy.py 101-106).
mounts_data(lst) == [n \in 1..Len(lst) |-> [local |-> lst[n][1], remote |-> lst[n][2]]]

\* The meta deploy_notebook and apply_notebook write: apply passes no
\* local_mounts; the hash of a directory deployment is "" (deploy.py
\* 99-113, apply.py 52-58).
Meta ==
  IF call.cmd = "deploy"
  THEN create_swap_meta(IF call.is_dir THEN "" ELSE compute_hash(file),
                        mounts_data(local_list))
  ELSE create_swap_meta(compute_hash(file), <<>>)

\* write_swap_file(file_path, meta), then the access information or the
\* browser (deploy.py 114-129, apply.py 59-63).
WriteSwapFile ==
  /\ wpc = "track"
  /\ swap' = write_swap_file(Meta)
  /\ log' = Append(log, Entry("write_swap", None, None, TRUE))
  /\ wpc' = IF call.headless THEN "end" ELSE "open"
  /\ UNCHANGED <<uri, out, mounts, i, remote_mounts, local_mounts, pc, raised>>
  /\ UNCHANGED <<call, resource, local_list, sent, file>>

\* The record is written back as it was read.
SyncedMetaStale(meta, content) == meta

\* meta.file_hash = compute_hash(content) (sync.py 64).
SyncedMeta(meta, content) == [meta EXCEPT !.file_hash = compute_hash(content)]

\* open_notebook(name, namespace, port, file_path): wait for the pod, then
\* port-forward until it ends or is interrupted; on KeyboardInterrupt
\* sync_notebook(file_path, force=True) reads the notebook from the pod,
\* writes it to the file and the new hash to the tracking file, or leaves
\* with sys.exit(1) if the read fails (deploy.py 162-216, sync.py 14-67).
OpenNotebook ==
  /\ wpc = "open"
  /\ \E ready \in BOOLEAN, interrupted \in BOOLEAN, success \in BOOLEAN,
        content \in Contents :
       IF interrupted /\ success
       THEN /\ file' = content
            /\ swap' = write_swap_file(SyncedMeta(swap, content))
            /\ log' = log \o <<Entry("wait", None, None, ready),
                               Entry("write_swap", None, None, TRUE)>>
            /\ wpc' = "end"
       ELSE /\ log' = Append(log, Entry("wait", None, None, ready))
            /\ wpc' = IF interrupted THEN "exit" ELSE "end"
            /\ UNCHANGED <<swap, file>>
  /\ UNCHANGED <<uri, out, mounts, i, remote_mounts, local_mounts, pc, raised>>
  /\ UNCHANGED <<call, resource, local_list, sent>>

\* --------------------------------------------- a deploy or apply invocation
\* A command at its entry: any arguments, a notebook file of any text, and
\* either no tracking file or the one an earlier deployment of the text "v1"
\* left.
InitDeploy ==
  /\ uri = None
  /\ out = NoCall
  /\ mounts = <<>>
  /\ i = <<>>
  /\ remote_mounts = <<>>
  /\ local_mounts = <<>>
  /\ pc = <<>>
  /\ raised = <<>>
  /\ call \in Invocations
  /\ wpc = "start"
  /\ resource = NoMounts
  /\ local_list = <<>>
  /\ sent = 0
  /\ log = <<>>
  /\ swap \in {NoSwap, create_swap_meta(compute_hash("v1"), <<>>)}
  /\ file \in Contents

NextDeploy ==
  \/ CheckExisting
  \/ Build
  \/ \E c \in DOMAIN pc : FilterStep(c)
  \/ \E c \in DOMAIN pc : FilterReturn(c)
  \/ BuildReturn
  \/ DryRun
  \/ ApplyResource
  \/ WaitForReady
  \/ SyncLocalSource
  \/ WriteSwapFile
  \/ OpenNotebook

SpecDeploy == InitDeploy /\ [][NextDeploy]_vars

\* ------------------------------------------- sync_notebook, delete_notebook
\* sync_notebook(file_path, force=) and delete_notebook(file_path, force=,
\* no_sync=) on a notebook file; keep_pvc only prints a note.
SyncArgs ==
  {[cmd |-> "sync", is_dir |-> FALSE, source |-> None, has_mounts_key |-> FALSE,
    fm_mounts |-> <<>>, dry_run |-> FALSE, force |-> fo, headless |-> TRUE,
    no_sync |-> FALSE] : fo \in BOOLEAN}

DeleteArgs ==
  {[cmd |-> "delete", is_dir |-> FALSE, source |-> None, has_mounts_key |-> FALSE,
    fm_mounts |-> <<>>, dry_run |-> FALSE, force |-> fo, headless |-> TRUE,
    no_sync |-> ns] : fo \in BOOLEAN, ns \in BOOLEAN}

\* The prompt is shown: the file is not the one the tracking record has the
\* hash of, and force is not set (sync.py 34-36, delete.py 44-46).
Prompted(force, text, meta) == ~force /\ compute_hash(text) # meta.file_hash

\* No answer stops the command.
DeclinedNever(force, text, meta, confirm) == FALSE

\* if not click.confirm(...): return (sync.py 38-40, delete.py 48-50).
Declined(force, text, meta, confirm) == Prompted(force, text, meta) /\ ~confirm

\* The prompt and the answer given to it, if the prompt is shown.
PromptLog(force, text, meta, confirm) ==
  IF Prompted(force, text, meta)
  THEN <<Entry("confirm", None, None, confirm)>>
  ELSE <<>>

\* The read of the notebook from the pod, exec_in_pod(... cat ...), with
\* the text it returned, and the write of a text to the notebook file.
PodRead(content, success) == Entry("cat", <<content>>, None, success)
FileWrite(content) == Entry("write_file", <<content>>, None, TRUE)

\* sync_notebook (sync.py 14-67): no tracking record, exit; the prompt
\* declined, return; the read from the pod failed, exit; else the text of
\* the pod is written to the file and its hash to the tracking record.
SyncNotebook ==
  /\ wpc = "start"
  /\ call.cmd = "sync"
  /\ \E confirm \in BOOLEAN, success \in BOOLEAN, content \in Contents :
       LET asked == PromptLog(call.force, file, swap, confirm)
       IN IF ~swap.exists
          THEN /\ wpc' = "exit"
               /\ UNCHANGED <<log, swap, file>>
          ELSE IF Declined(call.force, file, swap, confirm)
          THEN /\ wpc' = "cancelled"
               /\ log' = log \o asked
               /\ UNCHANGED <<swap, file>>
          ELSE IF ~success
          THEN /\ wpc' = "exit"
               /\ log' = log \o asked \o <<PodRead(content, FALSE)>>
               /\ UNCHANGED <<swap, file>>
          ELSE /\ wpc' = "end"
               /\ file' = content
               /\ swap' = write_swap_file(SyncedMeta(swap, content))
               /\ log' = log \o asked
                           \o <<PodRead(content, TRUE), FileWrite(content),
                                Entry("write_swap", None, None, TRUE)>>
  /\ UNCHANGED <<uri, out, mounts, i, remote_mounts, local_mounts, pc, raised>>
  /\ UNCHANGED <<call, resource, local_list, sent>>

\* The text of the pod is written whether the read succeeded or not.
AfterPullAlways(success, pod_content, text) == pod_content

\* if not success: warn and go on, else path.write_text(pod_content)
\* (delete.py 66-71).
AfterPull(success, pod_content, text) == IF success THEN pod_content ELSE text

\* delete_notebook up to the delete of the resource (delete.py 22-71): with
\* a tracking record and without --no-sync, the prompt, which stops the
\* command if declined, then the read from the pod and the write of what
\* was read; the tracking record is not written.
DeleteSync ==
  /\ wpc = "start"
  /\ call.cmd = "delete"
  /\ \E confirm \in BOOLEAN, success \in BOOLEAN, pod_content \in Contents :
       LET asked == PromptLog(call.force, file, swap, confirm)
       IN IF call.no_sync \/ ~swap.exists
          THEN /\ wpc' = "delete"
               /\ UNCHANGED <<log, file>>
          ELSE IF Declined(call.force, file, swap, confirm)
          THEN /\ wpc' = "cancelled"
               /\ log' = log \o asked
               /\ UNCHANGED file
          ELSE /\ wpc' = "delete"
               /\ file' = AfterPull(success, pod_content, file)
               /\ log' = log \o asked \o <<PodRead(pod_content, success)>>
                           \o (IF success THEN <<FileWrite(pod_content)>> ELSE <<>>)
  /\ UNCHANGED <<uri, out, mounts, i, remote_mounts, local_mounts, pc, raised>>
  /\ UNCHANGED <<call, resource, local_list, sent, swap>>

\* The tracking file is removed whether the resource was deleted or not.
SwapAfterDeleteAlways(ok, meta) == NoSwap

\* if not delete_resource(...): sys.exit(1); delete_swap_file(file_path)
\* (delete.py 79-83).
SwapAfterDelete(ok, meta) == IF ok THEN delete_swap_file(meta) ELSE meta

\* delete_resource, then the removal of the tracking file (delete.py 73-84);
\* the removal is logged with whether there was a file to remove.
DeleteResource ==
  /\ wpc = "delete"
  /\ \E ok \in BOOLEAN :
       /\ swap' = SwapAfterDelete(ok, swap)
       /\ log' = log \o <<Entry("delete", None, None, ok)>>
                     \o (IF ok THEN <<Entry("delete_swap", None, None, swap.exists)>>
                         ELSE <<>>)
       /\ wpc' = IF ok THEN "end" ELSE "exit"
  /\ UNCHANGED <<uri, out, mounts, i, remote_mounts, local_mounts, pc, raised>>
  /\ UNCHANGED <<call, resource, local_list, sent, file>>

\* ------------------------------------ commands on one notebook, in sequence
\* The commands run one after the other on a notebook file: deploy and apply
\* with no frontmatter mounts and at most a local source, sync, delete.
OpsInvocations ==
  {a \in Invocations :
     ~a.is_dir /\ ~a.has_mounts_key /\ a.source \in {None, LocalAbs}}
    \cup SyncArgs \cup DeleteArgs

\* No command runs: none was started yet, or the last one returned, was
\* cancelled or exited.
AtRest == wpc \in {"idle", "end", "exit", "cancelled"}

\* The next command starts, with fresh locals, on the file and the tracking
\* file the commands before it left.
Invoke ==
  /\ AtRest
  /\ call' \in OpsInvocations
  /\ wpc' = "start"
  /\ resource' = NoMounts
  /\ local_list' = <<>>
  /\ sent' = 0
  /\ log' = <<>>
  /\ mounts' = <<>>
  /\ i' = <<>>
  /\ remote_mounts' = <<>>
  /\ local_mounts' = <<>>
  /\ pc' = <<>>
  /\ raised' = <<>>
  /\ UNCHANGED <<uri, out, swap, file>>

\* The user edits the notebook file between two commands.
EditFile ==
  /\ AtRest
  /\ file' \in Contents \ {file}
  /\ UNCHANGED <<uri, out, mounts, i, remote_mounts, local_mounts, pc, raised>>
  /\ UNCHANGED <<call, wpc, resource, local_list, sent, log, swap>>

\* A notebook file of any text that was never deployed.
InitOps ==
  /\ uri = None
  /\ out = NoCall
  /\ mounts = <<>>
  /\ i = <<>>
  /\ remote_mounts = <<>>
  /\ local_mounts = <<>>
  /\ pc = <<>>
  /\ raised = <<>>
  /\ call = NoArgs
  /\ wpc = "idle"
  /\ resource = NoMounts
  /\ local_list = <<>>
  /\ sent = 0
  /\ log = <<>>
  /\ swap = NoSwap
  /\ file \in Contents

\* The file is changed by the commands only.
NextOps ==
  \/ Invoke
  \/ NextDeploy
  \/ SyncNotebook
  \/ DeleteSync
  \/ DeleteResource

SpecOps == InitOps /\ [][NextOps]_vars

\* The user may edit the file between the commands.
NextEdit == NextOps \/ EditFile

SpecEdit == InitOps /\ [][NextEdit]_vars

\* ================================================================ claims
\* What the claims say of a descriptor, read off its text.

\* The 1-based position of the first occurrence of sub in t, and of the
\* last occurrence of the character ch in t; 0 when there is none.
FirstOcc(t, sub) ==
  LET occ == {k \in 1..(Len(t) - Len(sub) + 1) : SubSeq(t, k, k + Len(sub) - 1) = sub}
  IN IF occ = {} THEN 0 ELSE CHOOSE k \in occ : \A j \in occ : k <= j

LastOcc(t, ch) ==
  LET occ == {k \in 1..Len(t) : t[k] = ch}
  IN IF occ = {} THEN 0 ELSE CHOOSE k \in occ : \A j \in occ : k >= j

\* The 1-based position of the first "://", 0 when the text has none.
SepAt(d) == FirstOcc(d, SchemeSep)

\* The text before and after the first "://".
SchemeText(d) == SubSeq(d, 1, SepAt(d) - 1)
RemainderText(d) == SubSeq(d, SepAt(d) + Len(SchemeSep), Len(d))

\* A text with no line break, but for one that may end it.
SingleLine(t) == \A k \in 1..(Len(t) - 1) : t[k] # NL

\* A text without the line break that may end it.
StripFinalNL(t) ==
  IF Len(t) >= 1 /\ t[Len(t)] = NL THEN SubSeq(t, 1, Len(t) - 1) ELSE t

\* The scheme is rsync and the text after "://" holds no "@".
ClaimedLocal(d) ==
  /\ SepAt(d) > 0
  /\ SchemeText(d) = rsync
  /\ ~contains(RemainderText(d), "@")

\* ClaimedLocal, for a descriptor that is a single line.
LocalText(d) == ClaimedLocal(d) /\ SingleLine(RemainderText(d))

\* A non-empty scheme of word characters, "://", and a single line.
WellFormed(d) ==
  /\ SepAt(d) > 1
  /\ \A k \in 1..(SepAt(d) - 1) : d[k] \in WordChar
  /\ SingleLine(RemainderText(d))

\* The remote form: any scheme but rsync, or an "@" after "://".
RemoteText(d) == SchemeText(d) # rsync \/ contains(RemainderText(d), "@")
NotLocalText(d) == ~LocalText(d)

\* The elements of a list.
Range(lst) == {lst[k] : k \in 1..Len(lst)}

\* The number of local descriptors among the first n of a batch.
LocalsBefore(batch, n) == Cardinality({q \in 1..n : LocalText(batch[q])})

\* ------------------------------------------------------------------- C1
\* C1: in the result of filter_mounts, a local descriptor with no explicit
\* mount point gets /home/marimo/notebooks/mounts/local-k where k is the
\* number of LOCAL descriptors before it in the batch, whatever the number
\* of remote or unparseable descriptors before it.
C1_LocalOnlyIndex ==
  \A c \in DOMAIN pc :
    pc[c] = "done" =>
      \A p \in 1..Len(mounts[c]) :
        (LocalText(mounts[c][p]) /\ parse_mount_uri(mounts[c][p]).mount_point = None)
          => /\ LocalsBefore(mounts[c], p) <= Len(local_mounts[c])
             /\ local_mounts[c][LocalsBefore(mounts[c], p)][2]
                  = default_mount(LocalsBefore(mounts[c], p - 1))

\* ------------------------------------------------------------------- C2
\* C2: filter_mounts never raises: no exception leaves a call, a finished
\* call has gone through the whole batch, and every descriptor that
\* parse_mount_uri rejects is in the remote list unchanged; a batch of one
\* rejected descriptor d returns remote = [d] and local = [].
C2_NeverRaises ==
  \A c \in DOMAIN pc :
    /\ pc[c] # "raised"
    /\ raised[c] = NoExc
    /\ pc[c] = "done" =>
         /\ i[c] = Len(mounts[c])
         /\ \A p \in 1..Len(mounts[c]) :
              parse_mount_uri(mounts[c][p]).exc # NoExc
                => mounts[c][p] \in Range(remote_mounts[c])
         /\ (Len(mounts[c]) = 1 /\ parse_mount_uri(mounts[c][1]).exc # NoExc)
              => remote_mounts[c] = mounts[c] /\ local_mounts[c] = <<>>

\* A finished call whose batch starts with a descriptor that
\* parse_mount_uri rejects (remote form, no ":/"), followed by a local one:
\* the first is in remote, and the loop went on to the second.
C2_Witness ==
  \E c \in DOMAIN pc :
    /\ pc[c] = "done"
    /\ Len(mounts[c]) >= 3
    /\ parse_mount_uri(mounts[c][1]).exc = "ValueError"
    /\ LocalText(mounts[c][2])
    /\ remote_mounts[c][1] = mounts[c][1]
    /\ Len(local_mounts[c]) >= 1

\* ------------------------------------------------------------------- C3
\* C3: the remote list is the subsequence of the batch made of its non-local
\* descriptors, each the raw string, in input order; the local list holds
\* one entry per local descriptor, in input order (source, scheme, and the
\* mount point where the descriptor gives one, are those of the descriptor).
LocalSel(batch) == SelectSeq(batch, LocalText)

C3_OrderPreserved ==
  \A c \in DOMAIN pc :
    pc[c] = "done" =>
      /\ remote_mounts[c] = SelectSeq(mounts[c], NotLocalText)
      /\ Len(local_mounts[c]) = Len(LocalSel(mounts[c]))
      /\ \A n \in 1..Len(local_mounts[c]) :
           LET parsed_n == parse_mount_uri(LocalSel(mounts[c])[n])
           IN /\ local_mounts[c][n][1] = parsed_n.source_path
              /\ local_mounts[c][n][3] = parsed_n.scheme
              /\ parsed_n.mount_point # None
                   => local_mounts[c][n][2] = parsed_n.mount_point

\* A finished call with two different remote descriptors and two different
\* local ones, remote and local interleaved.
C3_Witness ==
  \E c \in DOMAIN pc :
    /\ pc[c] = "done"
    /\ mounts[c] = <<Bucket, LocalAbs, RemoteHost, LocalRelMount>>
    /\ remote_mounts[c] = <<Bucket, RemoteHost>>
    /\ Len(local_mounts[c]) = 2

\* ------------------------------------------------------------------- C4
\* C4: is_local_mount returns true for every rsync descriptor whose
\* remainder holds no "@", and returns false for every descriptor that
\* holds "@" or whose scheme is not rsync, bucket-style ones included.
C4_IsLocalTotal ==
  (out.op = "is_local_mount" /\ WellFormed(uri)) =>
    /\ ClaimedLocal(uri) => out.res = [exc |-> NoExc, value |-> TRUE]
    /\ (contains(uri, "@") \/ SchemeText(uri) # rsync)
         => out.res = [exc |-> NoExc, value |-> FALSE]

\* ------------------------------------------------------------------- C5
\* C5 as claimed: every descriptor of the batch is in exactly one of the two
\* lists, and it is in local if and only if its scheme is rsync and the text
\* after "://" holds no "@".
C5_Original ==
  \A c \in DOMAIN pc :
    pc[c] = "done" =>
      /\ Len(remote_mounts[c]) + Len(local_mounts[c]) = Len(mounts[c])
      /\ Len(local_mounts[c])
           = Cardinality({p \in 1..Len(mounts[c]) : ClaimedLocal(mounts[c][p])})
      /\ \A p \in 1..Len(mounts[c]) :
           ClaimedLocal(mounts[c][p]) <=> mounts[c][p] \notin Range(remote_mounts[c])

\* C5 as amended: every descriptor of the batch is in exactly one of the two
\* lists, and it is in local if and only if its scheme is rsync and the text
\* after "://" holds no "@" and no line break other than one that ends it.
C5_Partition ==
  \A c \in DOMAIN pc :
    pc[c] = "done" =>
      /\ Len(remote_mounts[c]) + Len(local_mounts[c]) = Len(mounts[c])
      /\ Len(local_mounts[c])
           = Cardinality({p \in 1..Len(mounts[c]) : LocalText(mounts[c][p])})
      /\ \A p \in 1..Len(mounts[c]) :
           LocalText(mounts[c][p]) <=> mounts[c][p] \notin Range(remote_mounts[c])

\* A finished call on a bucket-style descriptor (no "@") and a local one:
\* the first is remote, the second local.
C5_Witness ==
  \E c \in DOMAIN pc :
    /\ pc[c] = "done"
    /\ mounts[c] = <<Bucket, LocalRel>>
    /\ remote_mounts[c] = <<Bucket>>
    /\ Len(local_mounts[c]) = 1

\* ------------------------------------------------------------------- C6
\* C6 as claimed: parse_mount_uri raises exactly when the string has no
\* "://", or is in remote form with no ":/" after the "://"; for every other
\* string it returns, with scheme the text before the first "://" and
\* remainder the text after it.
C6_Original ==
  out.op = "parse_mount_uri" =>
    /\ out.res.exc # NoExc
         <=> \/ SepAt(uri) = 0
             \/ RemoteText(uri) /\ FirstOcc(RemainderText(uri), <<":", "/">>) = 0
    /\ out.res.exc = NoExc
         => out.res.scheme = SchemeText(uri) /\ out.remainder = RemainderText(uri)

\* C6 as amended: parse_mount_uri raises ValueError exactly when the string
\* does not start with a non-empty run of word characters followed by "://",
\* or the text after "://" has a line break before its last character, or
\* the string is in remote form with no ":/" after the "://"; for every
\* other string it returns, with scheme the text before the first "://" and
\* remainder the text after it less a line break that ends it.
C6_RaisesExactly ==
  out.op = "parse_mount_uri" =>
    /\ out.res.exc \in {NoExc, "ValueError"}
    /\ out.res.exc = "ValueError"
         <=> \/ ~WellFormed(uri)
             \/ RemoteText(uri) /\ FirstOcc(RemainderText(uri), <<":", "/">>) = 0
    /\ out.res.exc = NoExc
         => /\ out.res.scheme = SchemeText(uri)
            /\ out.remainder = StripFinalNL(RemainderText(uri))

\* parse_mount_uri has raised on a well-formed descriptor with an "@" and no
\* ":/" after the "://".
C6_Witness ==
  /\ out.op = "parse_mount_uri"
  /\ out.res.exc = "ValueError"
  /\ WellFormed(uri)
  /\ contains(RemainderText(uri), "@")

\* ------------------------------------------------------------------- C7
\* C7: for a local-form descriptor the remainder is split on its last ":",
\* and a mount point is extracted only when the parts before and after that
\* colon are both non-empty; otherwise source is the whole remainder and
\* mount_point is None.
C7_BothPartsNonEmpty ==
  (out.op = "parse_mount_uri" /\ LocalText(uri)) =>
    LET colon == LastOcc(out.remainder, ":")
        before == SubSeq(out.remainder, 1, colon - 1)
        after == SubSeq(out.remainder, colon + 1, Len(out.remainder))
    IN IF colon > 0 /\ before # <<>> /\ after # <<>>
       THEN out.res.source_path = before /\ out.res.mount_point # None
       ELSE out.res.source_path = out.remainder /\ out.res.mount_point = None

\* ------------------------------------------------------------------- C8
\* C8: for a local-form descriptor with a mount-point candidate (the parts
\* before and after the last ":" both non-empty), source is the part before
\* and mount_point is the candidate itself when it starts with "/", and
\* /home/marimo/notebooks/ followed by the candidate otherwise; so
\* rsync://a:a and rsync://a:/a both have source a, with mount points
\* /home/marimo/notebooks/a and /a.
C8_MountPointResolved ==
  (out.op = "parse_mount_uri" /\ LocalText(uri)) =>
    LET colon == LastOcc(out.remainder, ":")
        before == SubSeq(out.remainder, 1, colon - 1)
        candidate == SubSeq(out.remainder, colon + 1, Len(out.remainder))
    IN /\ (colon > 0 /\ before # <<>> /\ candidate # <<>>)
            => /\ out.res.source_path = before
               /\ out.res.mount_point =
                    IF candidate[1] = "/" THEN candidate ELSE NotebooksDir \o candidate
       /\ uri = LocalRelMount
            => /\ out.res.source_path = <<"a">>
               /\ out.res.mount_point =
                    <<"/", "h", "o", "m", "e", "/", "m", "a", "r", "i", "m", "o", "/",
                      "n", "o", "t", "e", "b", "o", "o", "k", "s", "/", "a">>
       /\ uri = LocalAbsMount
            => out.res.source_path = <<"a">> /\ out.res.mount_point = <<"/", "a">>

\* parse_mount_uri has returned for a local descriptor whose source spans
\* path segments and whose mount point is relative.
C8_Witness ==
  /\ out.op = "parse_mount_uri"
  /\ LocalText(uri)
  /\ contains(out.res.source_path, "/")
  /\ Len(out.res.source_path) >= 2
  /\ out.res.mount_point = NotebooksDir \o <<"a">>

\* ------------------------------------------------------------------- C9
\* C9: for a remote-form descriptor, user_host is the text of the remainder
\* before its first ":/" and path_part the text from that slash on;
\* path_part is split on its last ":" and, only if the part after it is
\* non-empty and starts with "/", that part is mount_point and the part
\* before is source; otherwise source is path_part and mount_point is None.
\* The source returned always starts with "/".
C9_RemoteForm ==
  (out.op = "parse_mount_uri" /\ out.res.exc = NoExc /\ ~LocalText(uri)) =>
    LET boundary == FirstOcc(out.remainder, <<":", "/">>)
        path == SubSeq(out.remainder, boundary + 1, Len(out.remainder))
        colon == LastOcc(path, ":")
        after == SubSeq(path, colon + 1, Len(path))
    IN /\ boundary > 0
       /\ out.res.user_host = SubSeq(out.remainder, 1, boundary - 1)
       /\ IF colon > 0 /\ after # <<>> /\ after[1] = "/"
          THEN /\ out.res.mount_point = after
               /\ out.res.source_path = SubSeq(path, 1, colon - 1)
          ELSE /\ out.res.mount_point = None
               /\ out.res.source_path = path
       /\ Len(out.res.source_path) >= 1
       /\ out.res.source_path[1] = "/"

\* parse_mount_uri has returned for user@host:/source:/mount, where the
\* first ":/" and the last ":" differ.
C9_Witness ==
  /\ out.op = "parse_mount_uri"
  /\ out.res.exc = NoExc
  /\ out.res.user_host = <<"a", "@", "a">>
  /\ out.res.source_path = <<"/">>
  /\ out.res.mount_point = <<"/">>

\* ------------------------------------------------------------------ C10
\* C10: every entry of the local list of filter_mounts has a mount point
\* that is a non-empty string starting with "/", whether the descriptor gave
\* it (absolute or relative) or it is the default.
C10_MountPointAbsolute ==
  \A c \in DOMAIN pc :
    \A n \in 1..Len(local_mounts[c]) :
      /\ local_mounts[c][n][2] # None
      /\ Len(local_mounts[c][n][2]) >= 1
      /\ local_mounts[c][n][2][1] = "/"

\* A finished call whose local list holds an explicit absolute mount point,
\* a relative one and a default one.
C10_Witness ==
  \E c \in DOMAIN pc :
    /\ pc[c] = "done"
    /\ mounts[c] = <<LocalAbsMount, LocalRelMount, LocalRel>>
    /\ Len(local_mounts[c]) = 3
    /\ local_mounts[c][3][2] = default_mount(2)

\* ------------------------------------------------------------------ C11
\* C11: for a single local descriptor d whose text ends in ":" and an
\* absolute mount point m, filter_mounts([d]) returns
\* local = [(source(d), m, scheme(d))] and remote = [], source and scheme
\* being what parse_mount_uri returns for d: m is never replaced by a
\* default.
C11_ExplicitMountKept ==
  \A c \in DOMAIN pc :
    (pc[c] = "done" /\ Len(mounts[c]) = 1 /\ LocalText(mounts[c][1])) =>
      LET text == StripFinalNL(RemainderText(mounts[c][1]))
          m == SubSeq(text, LastOcc(text, ":") + 1, Len(text))
      IN (LastOcc(text, ":") > 0 /\ m # <<>> /\ m[1] = "/")
           => /\ local_mounts[c] =
                   << <<parse_mount_uri(mounts[c][1]).source_path, m,
                        parse_mount_uri(mounts[c][1]).scheme>> >>
              /\ remote_mounts[c] = <<>>

\* filter_mounts(["rsync://a:/a"]) has returned [("a", "/a", "rsync")].
C11_Witness ==
  \E c \in DOMAIN pc :
    /\ pc[c] = "done"
    /\ mounts[c] = <<LocalAbsMount>>
    /\ local_mounts[c] = << <<(<<"a">>), <<"/", "a">>, rsync>> >>

\* ------------------------------------------------------------------ C15
\* What filter_mounts returns for a batch when the call runs alone: the
\* loop of resources.py 98-111 from position idx on, started with the lists
\* rem and loc.
RECURSIVE RunAlone(_, _, _, _)
RunAlone(batch, idx, rem, loc) ==
  IF idx = Len(batch)
  THEN <<rem, loc>>
  ELSE LET parsed == parse_mount_uri(batch[idx + 1])
       IN IF parsed.exc = NoExc /\ parsed.user_host = None
          THEN RunAlone(batch, idx + 1, rem,
                        Append(loc, <<parsed.source_path,
                                      IF parsed.mount_point = None
                                      THEN LocalMountPrefix \o str(idx)
                                      ELSE parsed.mount_point,
                                      parsed.scheme>>))
          ELSE RunAlone(batch, idx + 1, Append(rem, batch[idx + 1]), loc)

\* C15: when filter_mounts calls run with their loop iterations interleaved
\* in any order, each call returns the remote and local lists it returns
\* when it runs alone.
C15_Interleaved ==
  \A c \in DOMAIN pc :
    pc[c] = "done" =>
      <<remote_mounts[c], local_mounts[c]>> = RunAlone(mounts[c], 0, <<>>, <<>>)

\* Two calls on different batches, both finished, the second of which gave
\* a default mount point after the first had made iterations of its own.
C15_Witness ==
  /\ DOMAIN pc = {1, 2}
  /\ pc[1] = "done"
  /\ pc[2] = "done"
  /\ mounts[1] = <<RemoteHost, LocalRel>>
  /\ mounts[2] = <<LocalRel, Bucket>>
  /\ local_mounts[1] # local_mounts[2]

\* ------------------------------------------------------------------ C16
\* C16: in one filter_mounts result, two local entries that both got a
\* default mount point have different mount points, and a default mount
\* point is /home/marimo/notebooks/mounts/local-<n> with 0 <= n < the number
\* of descriptors of the batch.
C16_DefaultsDistinct ==
  \A c \in DOMAIN pc :
    pc[c] = "done" =>
      LET sel == LocalSel(mounts[c])
          derived == {n \in 1..Len(local_mounts[c]) :
                        n <= Len(sel) /\ parse_mount_uri(sel[n]).mount_point = None}
      IN /\ \A n1 \in derived : \A n2 \in derived :
              n1 # n2 => local_mounts[c][n1][2] # local_mounts[c][n2][2]
         /\ \A n \in derived :
              \E k \in 0..(Len(mounts[c]) - 1) :
                local_mounts[c][n][2] = LocalMountPrefix \o str(k)

\* A finished call with two default mount points and a remote descriptor
\* between the two local ones.
C16_Witness ==
  \E c \in DOMAIN pc :
    /\ pc[c] = "done"
    /\ mounts[c] = <<LocalRel, RemoteHost, LocalAbs>>
    /\ Len(local_mounts[c]) = 2
    /\ local_mounts[c][1][2] # local_mounts[c][2][2]

\* ------------------------------------------------------------------ C12
\* build_marimo_notebook has returned to the command.
Built ==
  \/ wpc \in {"built", "wait", "copy", "track", "open", "end"}
  \/ wpc = "exit" /\ log # <<>>

\* The command was given a primary source.
SourceGiven == call.source # None /\ call.source # <<>>

\* C12: the batch build_marimo_notebook hands to filter_mounts is the
\* primary source, if one is given, followed by the frontmatter mounts in
\* their declared order (filter_mounts is not called for an empty batch);
\* and a remote primary source is the first entry of spec.mounts, every
\* other entry being a frontmatter mount.
C12_SourceFirst ==
  /\ DOMAIN pc # {} =>
       mounts[1] = IF SourceGiven THEN <<call.source>> \o call.fm_mounts
                   ELSE call.fm_mounts
  /\ (Built /\ DOMAIN pc = {}) => (~SourceGiven /\ call.fm_mounts = <<>>)
  /\ (Built /\ SourceGiven /\ NotLocalText(call.source)) =>
       /\ resource.has_mounts
       /\ resource.mounts[1] = call.source
       /\ \A n \in 2..Len(resource.mounts) :
            \E m \in 1..Len(call.fm_mounts) :
              /\ resource.mounts[n] = call.fm_mounts[m]
              /\ m >= n - 1

\* A deploy with a remote source and frontmatter mounts of which the first
\* is remote: the source comes first in spec.mounts.
C12_Witness ==
  /\ Built
  /\ call.source = Bucket
  /\ call.fm_mounts = <<RemoteHost, LocalRel>>
  /\ mounts[1] = <<Bucket, RemoteHost, LocalRel>>
  /\ resource.mounts = <<Bucket, RemoteHost>>

\* ------------------------------------------------------------------ C13
\* C13: in the resource build_marimo_notebook returns, spec.mounts is the
\* remote list of filter_mounts, verbatim and in order, and holds no local
\* descriptor; the key mounts is absent when the remote list is empty, a
\* batch of local mounts only included; the local entries are returned
\* apart, as the second result.
C13_SpecMountsRemoteOnly ==
  Built =>
    IF DOMAIN pc = {}
    THEN ~resource.has_mounts /\ local_list = <<>>
    ELSE /\ resource.has_mounts <=> remote_mounts[1] # <<>>
         /\ resource.has_mounts => resource.mounts = remote_mounts[1]
         /\ resource.has_mounts =>
              resource.mounts = SelectSeq(mounts[1], NotLocalText)
         /\ (\A n \in 1..Len(mounts[1]) : LocalText(mounts[1][n])) =>
              ~resource.has_mounts
         /\ local_list = local_mounts[1]
         /\ Len(local_list) = Len(LocalSel(mounts[1]))

\* A batch of local mounts only: no key mounts, two entries returned apart.
C13_Witness ==
  /\ Built
  /\ DOMAIN pc # {}
  /\ mounts[1] = <<LocalAbs, LocalRel>>
  /\ ~resource.has_mounts
  /\ Len(local_list) = 2

\* ------------------------------------------------------------------ C17
\* The calls of sync_local_source among the entries of the log.
IsSync(e) == e.op = "sync"
SyncCalls == SelectSeq(log, IsSync)

\* apply_resource succeeded.
AppliedOk == \E q \in 1..Len(log) : log[q].op = "apply" /\ log[q].ok

\* The first kubectl wait of the invocation reported the pod not ready.
FirstWaitFailed ==
  \E q \in 1..Len(log) :
    /\ log[q].op = "wait"
    /\ ~log[q].ok
    /\ \A r \in 1..(q - 1) : log[r].op # "wait"

\* The local list of the partition of the batch; empty for the empty batch.
PartitionLocal == IF DOMAIN pc = {} THEN <<>> ELSE local_mounts[1]

\* The copies attempted are those of the entries of lst, in order.
CopiesAre(lst) ==
  /\ Len(SyncCalls) = Len(lst)
  /\ \A n \in 1..Len(lst) :
       /\ SyncCalls[n].src = lst[n][1]
       /\ SyncCalls[n].dest = lst[n][2]

\* C17: a deploy or apply invocation that is no dry run, has applied its
\* resource successfully, has not seen its pod unready and has ended, has
\* attempted one copy for each entry of the local list of the partition, in
\* the order of the list.
C17_EveryLocalCopied ==
  (wpc = "end" /\ ~call.dry_run /\ AppliedOk /\ ~FirstWaitFailed)
    => CopiesAre(PartitionLocal)

\* The same of deploy alone, which does attempt every copy.
C17_DeployCopies ==
  (call.cmd = "deploy" /\ wpc = "end" /\ ~call.dry_run /\ AppliedOk /\ ~FirstWaitFailed)
    => CopiesAre(PartitionLocal)

\* ------------------------------------------------------------------ C18
\* The invocation is over: it returned, it was cancelled or it exited.
Ended == wpc \in {"end", "exit", "cancelled"}

\* The invocation wrote the tracking file.
SwapWritten == \E q \in 1..Len(log) : log[q].op = "write_swap"

\* C18 as stated: after a deploy or apply invocation has ended, the tracking
\* record holds no source path and no mount point of the mount batch.
C18_Original == Ended => swap.local_mounts = <<>>

\* C18: after a deploy or apply invocation has ended, the tracking record
\* holds of the mount batch exactly this: if the command is deploy and it
\* wrote the record, the source path and the mount point of every entry of
\* the local list, in order; nothing otherwise. No remote descriptor is in
\* the record.
C18_LocalPartPersisted ==
  Ended =>
    /\ Len(swap.local_mounts) =
         IF call.cmd = "deploy" /\ SwapWritten THEN Len(PartitionLocal) ELSE 0
    /\ \A n \in 1..Len(swap.local_mounts) :
         /\ swap.local_mounts[n].local = PartitionLocal[n][1]
         /\ swap.local_mounts[n].remote = PartitionLocal[n][2]
    /\ \A n \in 1..Len(swap.local_mounts) : \A d \in Range(resource.mounts) :
         swap.local_mounts[n].local # d /\ swap.local_mounts[n].remote # d

\* A deploy of a local source and a remote frontmatter mount has ended: the
\* record holds the path and the default mount point of the local one.
C18_Witness ==
  /\ wpc = "end"
  /\ call.cmd = "deploy"
  /\ call.source = LocalAbs
  /\ call.fm_mounts = <<RemoteHost>>
  /\ swap.local_mounts = <<[local |-> <<"/", "a">>, remote |-> default_mount(0)]>>

\* ------------------------------------------------------------------ C19
\* C19: every kubectl cp into a mount point comes right after the mkdir -p
\* of that mount point, both made by the same call of sync_local_source;
\* so no copy of an entry is issued before the directory creation of that
\* entry.
C19_MkdirBeforeCp ==
  \A q \in 1..Len(log) :
    log[q].op = "cp" =>
      /\ q > 2
      /\ log[q - 1].op = "mkdir"
      /\ log[q - 1].dest = log[q].dest
      /\ log[q - 2].op = "sync"
      /\ log[q - 2].dest = log[q].dest

\* A deploy has copied the contents of the directory /a into the default
\* mount point of its first local mount, after the mkdir -p of it.
C19_Witness ==
  /\ wpc = "end"
  /\ \E q \in 2..Len(log) :
       /\ log[q] = Entry("cp", <<"/", "a", "/", ".">>, default_mount(0), TRUE)
       /\ log[q - 1] = Entry("mkdir", None, default_mount(0), TRUE)

\* ------------------------------------------------------------------ C20
\* The requests of the copy of a local mount.
CopyOps == {"sync", "mkdir", "cp", "cleanup"}

\* C20: in deploy_notebook (a) every call of sync_local_source and every
\* request it makes comes after a successful apply_resource and after the
\* first kubectl wait, which reported the pod Ready; (b) after a failed
\* apply_resource the command has exited, has attempted no copy and has
\* written no tracking file; (c) if the wait for the local mounts reported
\* the pod not ready, no copy is attempted and, once past that point, the
\* deployment is recorded in the tracking file with its local mounts.
C20_CopyAfterReady ==
  call.cmd = "deploy" =>
    /\ \A q \in 1..Len(log) :
         log[q].op \in CopyOps =>
           \E a \in 1..(q - 1) : \E w \in (a + 1)..(q - 1) :
             /\ log[a].op = "apply" /\ log[a].ok
             /\ log[w].op = "wait" /\ log[w].ok
             /\ \A r \in 1..(w - 1) : log[r].op # "wait"
    /\ (\E q \in 1..Len(log) : log[q].op = "apply" /\ ~log[q].ok) =>
         /\ wpc = "exit"
         /\ Len(log) = 1
         /\ SyncCalls = <<>>
         /\ ~SwapWritten
    /\ (FirstWaitFailed /\ local_list # <<>>) =>
         /\ SyncCalls = <<>>
         /\ wpc # "track" =>
              /\ SwapWritten
              /\ swap.exists
              /\ Len(swap.local_mounts) = Len(local_list)

\* A deploy with a local mount whose pod was not ready has ended: no copy,
\* and a tracking file that records the local mount.
C20_Witness ==
  /\ call.cmd = "deploy"
  /\ wpc = "end"
  /\ local_list # <<>>
  /\ FirstWaitFailed
  /\ SyncCalls = <<>>
  /\ SwapWritten
  /\ swap.local_mounts # <<>>

\* ------------------------------------------------------------------ C21
\* C21: a dry-run deploy or apply issues no apply to the cluster, attempts
\* no copy of a local mount, and neither writes nor changes the tracking
\* file; the notebook file stays as it is too.
C21_DryRunNoEffect ==
  /\ [](call.dry_run => log = <<>>)
  /\ [][call.dry_run => (swap' = swap /\ file' = file)]_vars

\* A dry-run deploy with a local mount has ended next to the tracking file
\* of an earlier deployment, which still holds the hash of another text.
C21_Witness ==
  /\ call.dry_run
  /\ call.cmd = "deploy"
  /\ wpc = "end"
  /\ local_list # <<>>
  /\ log = <<>>
  /\ swap.exists
  /\ swap.file_hash # compute_hash(file)

\* ------------------------------------------------------------------ C22
\* The positions of the log that hold a request op.
At(op) == {q \in 1..Len(log) : log[q].op = op}

\* The tracking record the running delete found: it is still there, or the
\* command removed it.
RecordFound ==
  swap.exists \/ \E q \in At("delete_swap") : log[q].ok

\* C22: in a delete that found a tracking record and was not given
\* --no-sync, the delete of the cluster resource comes after the read of
\* the notebook from the pod and, if the read succeeded, after the write of
\* what was read to the local file; a failed read is followed by no write,
\* leaves the local file as it was and lets the command go on to the delete
\* of the resource.
C22_SyncBeforeDelete ==
  /\ [](call.cmd = "delete" =>
          /\ \A d \in At("delete") :
               (~call.no_sync /\ RecordFound) =>
                 \E c \in 1..(d - 1) :
                   /\ log[c].op = "cat"
                   /\ log[c].ok =>
                        /\ c + 1 < d
                        /\ log[c + 1] = FileWrite(log[c].src[1])
          /\ \A c \in At("cat") :
               ~log[c].ok =>
                 /\ At("write_file") = {}
                 /\ wpc = "delete" \/ c + 1 \in At("delete"))
  /\ [][(call.cmd = "delete" /\ wpc = "start") =>
          /\ (\E c \in 1..Len(log') : log'[c].op = "cat" /\ ~log'[c].ok) =>
               (file' = file /\ wpc' = "delete")
          /\ (\E c \in 1..Len(log') : log'[c].op = "cat" /\ log'[c].ok) =>
               (file' = log'[Len(log')].src[1] /\ wpc' = "delete")
          /\ (\A c \in 1..Len(log') : log'[c].op # "cat") => file' = file]_vars
  /\ [][(call.cmd = "delete" /\ wpc = "delete") => file' = file]_vars

\* A delete has read the text v2 from the pod, written it to the file, and
\* then deleted the resource and the tracking file.
C22_Witness ==
  /\ call.cmd = "delete"
  /\ wpc = "end"
  /\ file = "v2"
  /\ log = <<PodRead("v2", TRUE), FileWrite("v2"),
             Entry("delete", None, None, TRUE),
             Entry("delete_swap", None, None, TRUE)>>

\* ------------------------------------------------------------------ C23
\* C23: in a delete, the tracking file is removed only by the step that
\* deleted the cluster resource successfully, and after it: a failed
\* delete_resource is the last request of the command, which exits with the
\* tracking file as it was; after a successful one the tracking file is
\* absent.
C23_SwapRemovedAfterDelete ==
  /\ [](call.cmd = "delete" =>
          /\ \A d \in At("delete") :
               IF log[d].ok
               THEN /\ ~swap.exists
                    /\ wpc = "end"
                    /\ d + 1 \in At("delete_swap")
               ELSE /\ wpc = "exit"
                    /\ d = Len(log)
          /\ \A r \in At("delete_swap") :
               /\ r > 1
               /\ log[r - 1].op = "delete"
               /\ log[r - 1].ok)
  /\ [][(call.cmd = "delete" /\ wpc # "idle" /\ call' = call) =>
          /\ wpc' = "exit" => swap' = swap
          /\ swap' # swap => (wpc' = "end" /\ ~swap'.exists)]_vars

\* A delete whose delete_resource failed has exited; the tracking file of
\* the deployment is still there.
C23_Witness ==
  /\ call.cmd = "delete"
  /\ wpc = "exit"
  /\ swap.exists
  /\ Len(log) > 0
  /\ log[Len(log)] = Entry("delete", None, None, FALSE)

\* ------------------------------------------------------------------ C24
\* The prompt was answered no.
NoAnswer == Entry("confirm", None, None, FALSE)

\* C24: a sync, or a delete that syncs, of a file whose hash is not the one
\* of the tracking record, without force, shows the prompt; when the answer
\* is no the command stops there: the file and the tracking record are as
\* they were, nothing was read from the pod, and nothing was deleted.
C24_DeclineStops ==
  /\ []((call.cmd \in {"sync", "delete"}
            /\ \E q \in 1..Len(log) : log[q] = NoAnswer) =>
          /\ wpc = "cancelled"
          /\ log = <<NoAnswer>>)
  /\ [][(call.cmd \in {"sync", "delete"} /\ wpc = "start") =>
          /\ (/\ swap.exists
              /\ ~call.no_sync
              /\ ~call.force
              /\ compute_hash(file) # swap.file_hash) =>
               (Len(log') > 0 /\ log'[1].op = "confirm")
          /\ (\E q \in 1..Len(log') : log'[q] = NoAnswer) =>
               /\ wpc' = "cancelled"
               /\ file' = file
               /\ swap' = swap]_vars

\* A delete of an edited file was cancelled at the prompt: the tracking
\* file is there and still holds the hash of the text deployed.
C24_Witness ==
  /\ call.cmd = "delete"
  /\ wpc = "cancelled"
  /\ swap.exists
  /\ swap.file_hash # compute_hash(file)
  /\ log = <<NoAnswer>>

\* ------------------------------------------------------------------ C25
\* C25: the step that completes a sync leaves in the local file the text
\* read from the pod, and in the tracking record the hash of that text, the
\* rest of the record being as it was; a sync whose read from the pod
\* failed exits with the file and the tracking record as they were.
C25_SyncWritesBoth ==
  [][(call.cmd = "sync" /\ wpc = "start") =>
       /\ wpc' = "end" =>
            \E c \in 1..Len(log') :
              /\ log'[c].op = "cat"
              /\ log'[c].ok
              /\ file' = log'[c].src[1]
              /\ swap'.exists
              /\ swap'.file_hash = compute_hash(log'[c].src[1])
              /\ swap'.local_mounts = swap.local_mounts
       /\ (\E c \in 1..Len(log') : log'[c].op = "cat" /\ ~log'[c].ok) =>
            /\ wpc' = "exit"
            /\ file' = file
            /\ swap' = swap
       /\ wpc' # "end" => (file' = file /\ swap' = swap)]_vars

\* A sync of an edited file, the prompt answered yes, has put the text v2
\* of the pod in the file and its hash in the tracking record.
C25_Witness ==
  /\ call.cmd = "sync"
  /\ wpc = "end"
  /\ file = "v2"
  /\ swap.file_hash = compute_hash("v2")
  /\ log = <<Entry("confirm", None, None, TRUE), PodRead("v2", TRUE),
             FileWrite("v2"), Entry("write_swap", None, None, TRUE)>>

\* ------------------------------------------------------------------ C26
\* C26: between the commands of any sequence of deploy, apply, sync and
\* delete on a notebook file that only the commands write, a tracking
\* record that exists holds the hash of the text of the file.
C26_HashMatchesFile ==
  (AtRest /\ swap.exists) => swap.file_hash = compute_hash(file)

====
